---- MODULE Spec2Model ----
(***************************************************************************)
(* The command graph of lieutenant: CommandDispatcher::register builds a   *)
(* prefix-sharing graph of Arguments, CommandDispatcher::dispatch walks it *)
(* with an explicit stack of (cursor, node) candidates.                    *)
(*                                                                         *)
(* A command text is a sequence of symbols: the symbol " " is the          *)
(* delimiter, every other symbol stands for a run of non-space characters. *)
(* A token is the sequence of symbols between two delimiters.              *)
(***************************************************************************)
EXTENDS Integers, Sequences, FiniteSets, TLC

VARIABLES
    nodes,      \* CommandDispatcher.nodes: the slab, key k addresses nodes[k]
    children,   \* CommandDispatcher.children: keys of the root's children
    commands,   \* CommandDispatcher.commands: the recorded CommandSpecs
    op,         \* the last call made: register (descriptor, result) or dispatch
    pc,         \* "idle", "loop" (inside dispatch's while loop) or "returned"
    command,    \* dispatch's parameter `command`
    stack,      \* dispatch's local `nodes`: Vec<(Input, usize)>
    errors,     \* dispatch's local `errors`
    result,     \* what the last dispatch call returned
    invoked,    \* history: the execs called by the current dispatch, in order
    visited     \* history: the stack entries popped by the current dispatch

vars == <<nodes, children, commands, op, pc, command, stack, errors, result,
          invoked, visited>>

graph == <<nodes, children, commands>>
locals == <<pc, command, stack, errors, result, invoked, visited>>

----------------------------------------------------------------------------
(* Bounds of the model. *)

MaxCommands == 3    \* successful register calls
MaxArgs == 2        \* Arguments of one descriptor
MaxTextLen == 3     \* symbols of one command text

----------------------------------------------------------------------------
(* Arguments, descriptors and the text cursor. *)

None == 0           \* Option<NodeKey>::None; the keys are 1, 2, ...

Space == " "
Symbols == {"home", "list", Space}

Texts == UNION {[1..n -> Symbols] : n \in 0..MaxTextLen}

LitHome == [kind |-> "Literal", values |-> {<<"home">>}]
LitAlt == [kind |-> "Literal", values |-> {<<"list">>, <<"home">>}]
ParOpt ==
    [kind |-> "Parser", name |-> "name", argument_type |-> "Opt", priority |-> 0]

Arguments == {LitHome, LitAlt, ParOpt}

ArgumentSeqs == UNION {[1..n -> Arguments] : n \in 0..MaxArgs}

(* PartialEq of Argument: both Literal with the same values, or both Parser
   with the same name, type identity, priority and predicate (the predicate
   is a function of the type). *)
ArgumentEq(a, b) ==
    /\ a.kind = b.kind
    /\ IF a.kind = "Literal"
       THEN a.values = b.values
       ELSE /\ a.name = b.name
            /\ a.argument_type = b.argument_type
            /\ a.priority = b.priority

(* Input::new *)
InputNew(text) == text

(* Input::is_empty *)
IsEmpty(input) == input = <<>>

FirstSpace(input) ==
    IF \E i \in 1..Len(input) : input[i] = Space
    THEN CHOOSE i \in 1..Len(input) :
            /\ input[i] = Space
            /\ \A j \in 1..(i - 1) : input[j] # Space
    ELSE 0

(* Input::advance_until(" "): the run before the first delimiter, the cursor
   moves past the delimiter (to the end when there is none). *)
AdvanceUntil(input) ==
    LET p == FirstSpace(input)
    IN  IF p = 0
        THEN [head |-> input, rest |-> <<>>]
        ELSE [head |-> SubSeq(input, 1, p - 1),
              rest |-> SubSeq(input, p + 1, Len(input))]

(* ArgumentKind::satisfies of the parser type "Opt", an optional word: it
   accepts the end of the input without consuming anything, and otherwise
   takes the next token and accepts it unless it is empty.  The cursor stays
   where it was when the predicate fails. *)
ParserSatisfies(argument_type, input) ==
    LET a == AdvanceUntil(input)
    IN  IF IsEmpty(input)
        THEN [satisfies |-> TRUE, rest |-> input]
        ELSE IF a.head # <<>>
             THEN [satisfies |-> TRUE, rest |-> a.rest]
             ELSE [satisfies |-> FALSE, rest |-> input]

(* The match of dispatch: whether the Argument is satisfied at the cursor,
   and where the cursor stands afterwards. *)
Satisfy(argument, input) ==
    IF argument.kind = "Literal"
    THEN LET a == AdvanceUntil(input)
         IN  [satisfies |-> \E value \in argument.values : value = a.head,
              rest |-> a.rest]
    ELSE ParserSatisfies(argument.argument_type, input)

(* Node::from *)
NodeFrom(argument) ==
    [children |-> <<>>, argument |-> argument, execs |-> <<>>]

----------------------------------------------------------------------------
(* CommandDispatcher::register *)

ChildrenOf(ns, ch, node_key) ==
    IF node_key = None THEN ch ELSE ns[node_key].children

(* A registration that never finds an equal child. *)
MatchingChildNever(ns, kids, argument) == None

(* The inner for loop: the first child, in order, whose argument equals the
   one looked for. *)
MatchingChild(ns, kids, argument) ==
    IF \E j \in 1..Len(kids) : ArgumentEq(argument, ns[kids[j]].argument)
    THEN kids[CHOOSE j \in 1..Len(kids) :
                /\ ArgumentEq(argument, ns[kids[j]].argument)
                /\ \A i \in 1..(j - 1) :
                        ~ArgumentEq(argument, ns[kids[i]].argument)]
    ELSE None

(* The 'argument loop: follows existing nodes while the next argument has an
   equal child.  next is the index of the first argument not consumed. *)
RECURSIVE Walk(_, _, _, _, _)
Walk(ns, ch, arguments, i, node_key) ==
    IF i > Len(arguments)
    THEN [next |-> i, node_key |-> node_key]
    ELSE LET m == MatchingChild(ns, ChildrenOf(ns, ch, node_key), arguments[i])
         IN  IF m = None
             THEN [next |-> i, node_key |-> node_key]
             ELSE Walk(ns, ch, arguments, i + 1, m)

(* A second loop that pushes every new key onto the root children too. *)
RECURSIVE ExtendAlsoRoot(_, _, _, _, _)
ExtendAlsoRoot(ns, ch, arguments, i, node_key) ==
    IF i > Len(arguments)
    THEN [nodes |-> ns, children |-> ch, node_key |-> node_key]
    ELSE LET child_key == Len(ns) + 1
             ns1 == Append(ns, NodeFrom(arguments[i]))
         IN  IF node_key # None
             THEN ExtendAlsoRoot(
                    [ns1 EXCEPT ![node_key].children = Append(@, child_key)],
                    Append(ch, child_key), arguments, i + 1, child_key)
             ELSE ExtendAlsoRoot(ns1, Append(ch, child_key), arguments, i + 1,
                                 child_key)

(* A second loop that puts the new key at the front of the children list. *)
RECURSIVE ExtendPrepends(_, _, _, _, _)
ExtendPrepends(ns, ch, arguments, i, node_key) ==
    IF i > Len(arguments)
    THEN [nodes |-> ns, children |-> ch, node_key |-> node_key]
    ELSE LET child_key == Len(ns) + 1
             ns1 == Append(ns, NodeFrom(arguments[i]))
         IN  IF node_key # None
             THEN ExtendPrepends(
                    [ns1 EXCEPT ![node_key].children = <<child_key>> \o @],
                    ch, arguments, i + 1, child_key)
             ELSE ExtendPrepends(ns1, <<child_key>> \o ch, arguments, i + 1,
                                 child_key)

(* The second loop: one new node per remaining argument, chained.
   Slab::insert hands out the first vacant key; no key is ever freed, so it
   is the number of nodes stored so far (counted from 1 here). *)
RECURSIVE Extend(_, _, _, _, _)
Extend(ns, ch, arguments, i, node_key) ==
    IF i > Len(arguments)
    THEN [nodes |-> ns, children |-> ch, node_key |-> node_key]
    ELSE LET child_key == Len(ns) + 1
             ns1 == Append(ns, NodeFrom(arguments[i]))
         IN  IF node_key # None
             THEN Extend([ns1 EXCEPT ![node_key].children = Append(@, child_key)],
                         ch, arguments, i + 1, child_key)
             ELSE Extend(ns1, Append(ch, child_key), arguments, i + 1, child_key)

(* A registration that records the descriptor before it looks at node_key. *)
RegisterEffectRecordsFirst(ns, ch, cmds, spec) ==
    LET w == Walk(ns, ch, spec.arguments, 1, None)
        e == Extend(ns, ch, spec.arguments, w.next, w.node_key)
    IN  IF e.node_key # None
        THEN [nodes |-> [e.nodes EXCEPT ![e.node_key].execs = Append(@, spec.exec)],
              children |-> e.children,
              commands |-> Append(cmds, spec),
              result |-> "Ok"]
        ELSE [nodes |-> e.nodes,
              children |-> e.children,
              commands |-> Append(cmds, spec),
              result |-> "ExecutableRoot"]

(* A registration that rejects a descriptor whose terminal node already
   carries an exec. *)
RegisterEffectOverlapping(ns, ch, cmds, spec) ==
    LET w == Walk(ns, ch, spec.arguments, 1, None)
        e == Extend(ns, ch, spec.arguments, w.next, w.node_key)
    IN  IF e.node_key = None
        THEN [nodes |-> e.nodes, children |-> e.children, commands |-> cmds,
              result |-> "ExecutableRoot"]
        ELSE IF e.nodes[e.node_key].execs # <<>>
             THEN [nodes |-> e.nodes, children |-> e.children, commands |-> cmds,
                   result |-> "OverlappingCommands"]
             ELSE [nodes |-> [e.nodes EXCEPT
                                ![e.node_key].execs = Append(@, spec.exec)],
                   children |-> e.children,
                   commands |-> Append(cmds, spec),
                   result |-> "Ok"]

(* A registration that records the descriptor at the front of the list. *)
RegisterEffectPrepends(ns, ch, cmds, spec) ==
    LET w == Walk(ns, ch, spec.arguments, 1, None)
        e == Extend(ns, ch, spec.arguments, w.next, w.node_key)
    IN  IF e.node_key # None
        THEN [nodes |-> [e.nodes EXCEPT ![e.node_key].execs = Append(@, spec.exec)],
              children |-> e.children,
              commands |-> <<spec>> \o cmds,
              result |-> "Ok"]
        ELSE [nodes |-> e.nodes,
              children |-> e.children,
              commands |-> cmds,
              result |-> "ExecutableRoot"]

(* A registration that attaches the handler where the walk stopped, when it
   matched anything. *)
RegisterEffectExecAtMatched(ns, ch, cmds, spec) ==
    LET w == Walk(ns, ch, spec.arguments, 1, None)
        e == Extend(ns, ch, spec.arguments, w.next, w.node_key)
        at == IF w.node_key # None THEN w.node_key ELSE e.node_key
    IN  IF e.node_key # None
        THEN [nodes |-> [e.nodes EXCEPT ![at].execs = Append(@, spec.exec)],
              children |-> e.children,
              commands |-> Append(cmds, spec),
              result |-> "Ok"]
        ELSE [nodes |-> e.nodes,
              children |-> e.children,
              commands |-> cmds,
              result |-> "ExecutableRoot"]

(* A registration that attaches the handler to the first node of the
   descriptor's path. *)
RegisterEffectExecAtHead(ns, ch, cmds, spec) ==
    LET w == Walk(ns, ch, spec.arguments, 1, None)
        e == Extend(ns, ch, spec.arguments, w.next, w.node_key)
        h == MatchingChild(e.nodes, e.children, spec.arguments[1])
    IN  IF e.node_key # None
        THEN [nodes |-> [e.nodes EXCEPT ![h].execs = Append(@, spec.exec)],
              children |-> e.children,
              commands |-> Append(cmds, spec),
              result |-> "Ok"]
        ELSE [nodes |-> e.nodes,
              children |-> e.children,
              commands |-> cmds,
              result |-> "ExecutableRoot"]

(* What register returns and leaves behind, for the descriptor spec. *)
RegisterEffect(ns, ch, cmds, spec) ==
    LET w == Walk(ns, ch, spec.arguments, 1, None)
        e == Extend(ns, ch, spec.arguments, w.next, w.node_key)
    IN  IF e.node_key # None
        THEN [nodes |-> [e.nodes EXCEPT ![e.node_key].execs = Append(@, spec.exec)],
              children |-> e.children,
              commands |-> Append(cmds, spec),
              result |-> "Ok"]
        ELSE [nodes |-> e.nodes,
              children |-> e.children,
              commands |-> cmds,
              result |-> "ExecutableRoot"]

(* A `with` call that has panicked: the dispatcher it took by value is
   dropped, nothing more is done with it. *)
Panicked == op.name = "with" /\ op.panicked

(* register(command): the handler of the n-th recorded descriptor is named n.
   Registration is the setup phase: it comes before the dispatch. *)
Register(arguments) ==
    /\ pc = "idle"
    /\ ~Panicked
    /\ arguments = <<>> \/ Len(commands) < MaxCommands
    /\ LET spec == [arguments |-> arguments, exec |-> Len(commands) + 1]
           r == RegisterEffect(nodes, children, commands, spec)
       IN  /\ nodes' = r.nodes
           /\ children' = r.children
           /\ commands' = r.commands
           /\ op' = [name |-> "register", arguments |-> arguments,
                     result |-> r.result]
    /\ UNCHANGED locals

(* with(command): register(command).unwrap(), which panics on any Err. *)
With(arguments) ==
    /\ pc = "idle"
    /\ ~Panicked
    /\ arguments = <<>> \/ Len(commands) < MaxCommands
    /\ LET spec == [arguments |-> arguments, exec |-> Len(commands) + 1]
           r == RegisterEffect(nodes, children, commands, spec)
       IN  /\ nodes' = r.nodes
           /\ children' = r.children
           /\ commands' = r.commands
           /\ op' = [name |-> "with", arguments |-> arguments,
                     result |-> r.result, panicked |-> r.result # "Ok"]
    /\ UNCHANGED locals

(* commands(): the recorded descriptors, in the order of the list. *)
CommandsIter == commands

----------------------------------------------------------------------------
(* CommandDispatcher::dispatch *)

(* A first loop that goes over the root children twice. *)
SeedStackTwice(ch, text) ==
    [i \in 1..(2 * Len(ch)) |->
        [input |-> InputNew(text), node |-> ch[((i - 1) % Len(ch)) + 1]]]

(* The first for loop: one entry per root child, each with a fresh cursor. *)
SeedStack(ch, text) ==
    [i \in 1..Len(ch) |-> [input |-> InputNew(text), node |-> ch[i]]]

(* An exec loop that goes on after an exec has returned Ok. *)
RECURSIVE RunExecsKeepsGoing(_, _, _, _, _)
RunExecsKeepsGoing(execs, outs, i, errs, calls) ==
    IF i > Len(execs)
    THEN IF \E n \in 1..Len(calls) : calls[n].ok
         THEN [returned |-> TRUE,
               ok |-> calls[CHOOSE n \in 1..Len(calls) :
                                /\ calls[n].ok
                                /\ \A m \in 1..(n - 1) : ~calls[m].ok].exec,
               errors |-> errs, invoked |-> calls]
         ELSE [returned |-> FALSE, errors |-> errs, invoked |-> calls]
    ELSE IF outs[i]
         THEN RunExecsKeepsGoing(execs, outs, i + 1, errs,
                                 Append(calls, [exec |-> execs[i], ok |-> TRUE]))
         ELSE RunExecsKeepsGoing(execs, outs, i + 1, Append(errs, execs[i]),
                                 Append(calls, [exec |-> execs[i], ok |-> FALSE]))

(* An exec loop that keeps the errors of the current node only. *)
RECURSIVE RunExecsFreshErrors(_, _, _, _, _)
RunExecsFreshErrors(execs, outs, i, errs, calls) ==
    LET kept == IF i = 1 THEN <<>> ELSE errs
    IN  IF i > Len(execs)
        THEN [returned |-> FALSE, errors |-> kept, invoked |-> calls]
        ELSE IF outs[i]
             THEN [returned |-> TRUE, ok |-> execs[i], errors |-> kept,
                   invoked |-> Append(calls, [exec |-> execs[i], ok |-> TRUE])]
             ELSE RunExecsFreshErrors(execs, outs, i + 1, Append(kept, execs[i]),
                                      Append(calls, [exec |-> execs[i], ok |-> FALSE]))

(* The for loop over node.execs: outs[i] tells whether the i-th exec returns
   Ok.  Stops at the first Ok. *)
RECURSIVE RunExecs(_, _, _, _, _)
RunExecs(execs, outs, i, errs, calls) ==
    IF i > Len(execs)
    THEN [returned |-> FALSE, errors |-> errs, invoked |-> calls]
    ELSE IF outs[i]
         THEN [returned |-> TRUE, ok |-> execs[i], errors |-> errs,
               invoked |-> Append(calls, [exec |-> execs[i], ok |-> TRUE])]
         ELSE RunExecs(execs, outs, i + 1, Append(errs, execs[i]),
                       Append(calls, [exec |-> execs[i], ok |-> FALSE]))

(* Execs run whenever the Argument is satisfied, input left or not. *)
RunsExecsAnyRest(input, satisfies) == satisfies

(* Execs run whenever the cursor is exhausted, Argument satisfied or not. *)
RunsExecsWhenExhausted(input, satisfies) == IsEmpty(input)

(* Whether the popped node's execs are run. *)
RunsExecs(input, satisfies) == IsEmpty(input) /\ satisfies

(* Children pushed whether the Argument is satisfied or not. *)
PushChildrenUnsatisfied(stk, kids, input, satisfies) ==
    stk \o [i \in 1..Len(kids) |-> [input |-> input, node |-> kids[i]]]

(* Children pushed with one cursor between them: the child on top of the
   stack is evaluated first, and its siblings start where it has left the
   cursor. *)
PushChildrenSharedCursor(stk, kids, input, satisfies) ==
    IF satisfies
    THEN stk \o [i \in 1..Len(kids) |->
                    [input |-> IF i = Len(kids)
                               THEN input
                               ELSE Satisfy(nodes[kids[Len(kids)]].argument,
                                            input).rest,
                     node |-> kids[i]]]
    ELSE stk

(* Children pushed last first, so that the earliest child is on top. *)
PushChildrenReversed(stk, kids, input, satisfies) ==
    IF satisfies
    THEN stk \o [i \in 1..Len(kids) |->
                    [input |-> input, node |-> kids[Len(kids) + 1 - i]]]
    ELSE stk

(* The last if: a satisfied node pushes one entry per child, each with a copy
   of the cursor; an unsatisfied node pushes nothing. *)
PushChildren(stk, kids, input, satisfies) ==
    IF satisfies
    THEN stk \o [i \in 1..Len(kids) |-> [input |-> input, node |-> kids[i]]]
    ELSE stk

(* After the execs, the children are pushed all the same. *)
ContinueIntoChildren(stk, kids, input) ==
    stk \o [i \in 1..Len(kids) |-> [input |-> input, node |-> kids[i]]]

(* The `continue` after the execs of a node whose Argument exhausted the
   cursor: the loop goes on with the stack as the pop left it. *)
Continue(stk, kids, input) == stk

(* dispatch(ctx, command) is entered: it borrows the graph and leaves it as
   it is, so every call starts from a state registration has left. *)
DispatchCall(text) ==
    /\ pc = "idle"
    /\ ~Panicked
    /\ pc' = "loop"
    /\ command' = text
    /\ stack' = SeedStack(children, text)
    /\ errors' = <<>>
    /\ result' = [kind |-> "none"]
    /\ invoked' = <<>>
    /\ visited' = <<>>
    /\ op' = [name |-> "dispatch"]
    /\ UNCHANGED graph

(* One iteration of the while loop. *)
DispatchIterate ==
    /\ pc = "loop"
    /\ stack # <<>>
    /\ LET top == stack[Len(stack)]
           popped == SubSeq(stack, 1, Len(stack) - 1)
           node == nodes[top.node]
           s == Satisfy(node.argument, top.input)
       IN  /\ visited' = Append(visited, [node |-> top.node, input |-> top.input,
                                          rest |-> s.rest, satisfies |-> s.satisfies])
           /\ IF RunsExecs(s.rest, s.satisfies)
              THEN \E outs \in [1..Len(node.execs) -> BOOLEAN] :
                     LET r == RunExecs(node.execs, outs, 1, errors, invoked)
                     IN  /\ invoked' = r.invoked
                         /\ errors' = r.errors
                         /\ stack' = Continue(popped, node.children, s.rest)
                         /\ IF r.returned
                            THEN /\ pc' = "returned"
                                 /\ result' = [kind |-> "Ok", ok |-> r.ok]
                            ELSE UNCHANGED <<pc, result>>
              ELSE /\ stack' = PushChildren(popped, node.children, s.rest,
                                            s.satisfies)
                   /\ UNCHANGED <<pc, result, errors, invoked>>
    /\ UNCHANGED <<graph, op, command>>

(* The loop ends with an empty stack: Err(errors). *)
DispatchFail ==
    /\ pc = "loop"
    /\ stack = <<>>
    /\ pc' = "returned"
    /\ result' = [kind |-> "Err", errors |-> errors]
    /\ UNCHANGED <<graph, op, command, stack, errors, invoked, visited>>

----------------------------------------------------------------------------

Init ==
    /\ nodes = <<>>
    /\ children = <<>>
    /\ commands = <<>>
    /\ op = [name |-> "new"]
    /\ pc = "idle"
    /\ command = <<>>
    /\ stack = <<>>
    /\ errors = <<>>
    /\ result = [kind |-> "none"]
    /\ invoked = <<>>
    /\ visited = <<>>

Next ==
    \/ \E arguments \in ArgumentSeqs : Register(arguments)
    \/ \E arguments \in ArgumentSeqs : With(arguments)
    \/ \E text \in Texts : DispatchCall(text)
    \/ DispatchIterate
    \/ DispatchFail

Spec == Init /\ [][Next]_vars

(* dispatch is sequential code: once entered, the while loop runs on, and
   Argument predicates and handlers are taken to return. *)
FairSpec == Spec /\ WF_vars(DispatchIterate) /\ WF_vars(DispatchFail)

----------------------------------------------------------------------------
(* Definitions the properties are stated with. *)

Range(f) == {f[i] : i \in DOMAIN f}

Last(p) == p[Len(p)]

(* The length of the longest common prefix of two Argument sequences. *)
CommonPrefixLen(a, b) ==
    LET agree == {n \in 0..Len(a) :
                    /\ n <= Len(b)
                    /\ \A m \in 1..n : ArgumentEq(a[m], b[m])}
    IN  CHOOSE n \in agree : \A m \in agree : m <= n

(* The chains of node keys that start at a root child and follow children
   links, n nodes long. *)
RECURSIVE PathsOfLen(_)
PathsOfLen(n) ==
    IF n = 1
    THEN {<<c>> : c \in Range(children)}
    ELSE UNION {{Append(p, c) : c \in Range(nodes[Last(p)].children)} :
                    p \in PathsOfLen(n - 1)}

NodePaths == UNION {PathsOfLen(n) : n \in 1..Len(nodes)}

(* The root-to-terminal paths of the i-th recorded descriptor: the chains
   that end in a node holding its handler. *)
PathsOf(i) == {p \in NodePaths : i \in Range(nodes[Last(p)].execs)}

ArgumentsAlong(p) == [n \in 1..Len(p) |-> nodes[p[n]].argument]

(* The input satisfies the Arguments from the i-th on, one after the other,
   and nothing is left over after the last. *)
RECURSIVE SatisfiedFrom(_, _, _)
SatisfiedFrom(arguments, i, input) ==
    IF i > Len(arguments)
    THEN IsEmpty(input)
    ELSE LET s == Satisfy(arguments[i], input)
         IN  s.satisfies /\ SatisfiedFrom(arguments, i + 1, s.rest)

SatisfiesInOrder(arguments, text) == SatisfiedFrom(arguments, 1, InputNew(text))

(* The same, and the cursor is exhausted at the last Argument and not
   before: the text fully matches the path. *)
RECURSIVE FullyMatchedFrom(_, _, _)
FullyMatchedFrom(arguments, i, input) ==
    LET s == Satisfy(arguments[i], input)
    IN  /\ s.satisfies
        /\ IF i = Len(arguments)
           THEN IsEmpty(s.rest)
           ELSE ~IsEmpty(s.rest) /\ FullyMatchedFrom(arguments, i + 1, s.rest)

FullyMatches(arguments, text) ==
    arguments # <<>> /\ FullyMatchedFrom(arguments, 1, InputNew(text))

Invoked(i) == \E j \in 1..Len(invoked) : invoked[j].exec = i

Succeeded(i) == \E j \in 1..Len(invoked) : invoked[j].exec = i /\ invoked[j].ok

(* x comes before y in the sequence s. *)
Before(s, x, y) ==
    \E m, n \in 1..Len(s) : m < n /\ s[m] = x /\ s[n] = y

SameArguments(i, j) ==
    /\ Len(commands[i].arguments) = Len(commands[j].arguments)
    /\ \A n \in 1..Len(commands[i].arguments) :
            ArgumentEq(commands[i].arguments[n], commands[j].arguments[n])

(* The errors of the failed invocations, in invocation order. *)
FailedErrors ==
    LET failed == SelectSeq(invoked, LAMBDA c : ~c.ok)
    IN  [n \in 1..Len(failed) |-> failed[n].exec]

----------------------------------------------------------------------------
(* C1: after any sequence of register calls (pc = "idle": no dispatch has
   been entered, and dispatch leaves the graph alone), every recorded
   descriptor has exactly one root-to-terminal path, which spells its
   Arguments, and two descriptors whose Argument sequences share a longest
   common prefix of length k >= 1 have paths that coincide on exactly their
   first k nodes and have no node in common after it. *)
C1_SharedPrefixOneChain ==
    pc = "idle" =>
        /\ \A i \in 1..Len(commands) :
            /\ Cardinality(PathsOf(i)) = 1
            /\ \A p \in PathsOf(i) : ArgumentsAlong(p) = commands[i].arguments
        /\ \A i, j \in 1..Len(commands) :
            LET k == CommonPrefixLen(commands[i].arguments, commands[j].arguments)
            IN  (i # j /\ k >= 1) =>
                    \A p \in PathsOf(i), q \in PathsOf(j) :
                        /\ \A n \in 1..k : p[n] = q[n]
                        /\ \A m \in (k + 1)..Len(p), n \in (k + 1)..Len(q) :
                                p[m] # q[n]

(* C1, its case: "home [name]" and "home list|home" are registered; the root
   has the single child Literal{home}, which has two children. *)
C1_Witness ==
    /\ pc = "idle"
    /\ Len(commands) = 2
    /\ commands[1].arguments = <<LitHome, ParOpt>>
    /\ commands[2].arguments = <<LitHome, LitAlt>>
    /\ Len(children) = 1
    /\ nodes[children[1]].argument = LitHome
    /\ Len(nodes[children[1]].children) = 2

(* C2: a register call with a descriptor of zero Arguments returns
   Err(ExecutableRoot) and leaves the node store, the root children and the
   recorded descriptors as they were. *)
C2_EmptyDescriptorRejected ==
    [][(pc' = "idle" /\ op'.name = "register" /\ op'.arguments = <<>>) =>
            /\ op'.result = "ExecutableRoot"
            /\ nodes' = nodes
            /\ children' = children
            /\ commands' = commands]_vars

(* C2, its case: the call was made on a graph that holds nodes. *)
C2_Witness ==
    /\ op.name = "register"
    /\ op.arguments = <<>>
    /\ op.result = "ExecutableRoot"
    /\ Len(nodes) >= 2
    /\ Len(commands) >= 1

(* C3: when dispatch returns failure, the handler of every recorded
   descriptor whose Arguments the command text satisfies in order, with no
   input left over, was invoked. *)
C3_SatisfiedHandlerInvoked ==
    (pc = "returned" /\ result.kind = "Err") =>
        \A i \in 1..Len(commands) :
            SatisfiesInOrder(commands[i].arguments, command) => Invoked(i)

(* C3 for the texts that exhaust the cursor at the last Argument only. *)
Aux_FullyMatchedHandlerInvoked ==
    (pc = "returned" /\ result.kind = "Err") =>
        \A i \in 1..Len(commands) :
            FullyMatches(commands[i].arguments, command) => Invoked(i)

(* C4: dispatch invokes a handler only if the command text fully matches
   the handler's path: every Argument of the path is satisfied in order and
   the cursor is exhausted at the terminal node and not before.  So with
   "home home" and "home list|home" registered, the text "home list" never
   invokes the first handler, and a success returned is the second's. *)
C4_InvokedOnlyOnFullMatch ==
    /\ \A n \in 1..Len(invoked) :
        /\ invoked[n].exec \in 1..Len(commands)
        /\ FullyMatches(commands[invoked[n].exec].arguments, command)
    /\ ( /\ Len(commands) = 2
         /\ commands[1].arguments = <<LitHome, LitHome>>
         /\ commands[2].arguments = <<LitHome, LitAlt>>
         /\ command = <<"home", Space, "list">>
         /\ pc = "returned" ) =>
            /\ ~Invoked(1)
            /\ Invoked(2)
            /\ result.kind = "Ok" => result.ok = 2

(* C4, its case: "home list" dispatched against "home home" and
   "home list|home" returned the success of the second handler. *)
C4_Witness ==
    /\ Len(commands) = 2
    /\ commands[1].arguments = <<LitHome, LitHome>>
    /\ commands[2].arguments = <<LitHome, LitAlt>>
    /\ command = <<"home", Space, "list">>
    /\ pc = "returned"
    /\ result = [kind |-> "Ok", ok |-> 2]
    /\ invoked = <<[exec |-> 2, ok |-> TRUE]>>

(* C5: two descriptors with the same Argument sequence have their handlers
   on the same node, in registration order, and are tried in that order; on
   an input that satisfies the sequence both are tried, unless the success
   of a handler has ended the dispatch: the one that succeeds is the result
   of dispatch, and when dispatch fails both errors are in the returned
   list, in that order. *)
C5_IdenticalSequencesBothTried ==
    \A i, j \in 1..Len(commands) :
        (i < j /\ SameArguments(i, j)) =>
            /\ \E k \in 1..Len(nodes) : Before(nodes[k].execs, i, j)
            /\ Invoked(j) =>
                /\ Before([n \in 1..Len(invoked) |-> invoked[n].exec], i, j)
                /\ ~Succeeded(i)
            /\ (pc = "returned" /\ SatisfiesInOrder(commands[i].arguments, command)) =>
                LET otherWon == result.kind = "Ok" /\ result.ok \notin {i, j}
                IN  /\ Invoked(i) \/ otherWon
                    /\ (Invoked(i) /\ ~Succeeded(i)) => (Invoked(j) \/ otherWon)
                    /\ Succeeded(i) => result = [kind |-> "Ok", ok |-> i]
                    /\ Succeeded(j) => result = [kind |-> "Ok", ok |-> j]
                    /\ result.kind = "Err" => Before(result.errors, i, j)

(* C5 for the texts that exhaust the cursor at the last Argument only. *)
Aux_IdenticalSequencesOnFullMatch ==
    \A i, j \in 1..Len(commands) :
        (i < j /\ SameArguments(i, j)) =>
            /\ \E k \in 1..Len(nodes) : Before(nodes[k].execs, i, j)
            /\ Invoked(j) =>
                /\ Before([n \in 1..Len(invoked) |-> invoked[n].exec], i, j)
                /\ ~Succeeded(i)
            /\ (pc = "returned" /\ FullyMatches(commands[i].arguments, command)) =>
                LET otherWon == result.kind = "Ok" /\ result.ok \notin {i, j}
                IN  /\ Invoked(i) \/ otherWon
                    /\ (Invoked(i) /\ ~Succeeded(i)) => (Invoked(j) \/ otherWon)
                    /\ Succeeded(i) => result = [kind |-> "Ok", ok |-> i]
                    /\ Succeeded(j) => result = [kind |-> "Ok", ok |-> j]
                    /\ result.kind = "Err" => Before(result.errors, i, j)

(* C6: a node whose Argument left input behind has none of its execs
   invoked, and when every satisfied node visited left input behind no
   handler is invoked at all. *)
C6_LeftoverInputRunsNoExec ==
    /\ \A v \in 1..Len(visited) :
        ~IsEmpty(visited[v].rest) =>
            \A e \in Range(nodes[visited[v].node].execs) : ~Invoked(e)
    /\ (\A v \in 1..Len(visited) :
            visited[v].satisfies => ~IsEmpty(visited[v].rest)) => invoked = <<>>

(* C6, its case: the Argument of a node that carries a handler was
   satisfied with input left over, and dispatch returned without a call. *)
C6_Witness ==
    /\ pc = "returned"
    /\ invoked = <<>>
    /\ \E v \in 1..Len(visited) :
        /\ visited[v].satisfies
        /\ ~IsEmpty(visited[v].rest)
        /\ nodes[visited[v].node].execs # <<>>
        /\ nodes[visited[v].node].children = <<>>

(* C7: dispatch returns Ok exactly when an invoked exec returned success;
   that exec is the last one invoked, its value is the value returned, and
   the node it is attached to is the last node whose Argument was tried. *)
C7_FirstSuccessReturns ==
    /\ result.kind = "Ok" <=> \E n \in 1..Len(invoked) : invoked[n].ok
    /\ \A n \in 1..Len(invoked) :
        invoked[n].ok =>
            /\ n = Len(invoked)
            /\ pc = "returned"
            /\ result = [kind |-> "Ok", ok |-> invoked[n].exec]
            /\ invoked[n].exec \in Range(nodes[visited[Len(visited)].node].execs)

(* C7, its case: a handler succeeded after another had failed, and entries
   were left on the stack. *)
C7_Witness ==
    /\ pc = "returned"
    /\ result.kind = "Ok"
    /\ Len(invoked) >= 2
    /\ stack # <<>>

(* C8: the errors collected are the errors of the failed invocations, one
   each, in invocation order, and they are what a failing dispatch returns. *)
C8_ErrorsAreFailedInvocations ==
    /\ errors = FailedErrors
    /\ result.kind = "Err" => result.errors = FailedErrors

(* C8, its case: dispatch failed after handlers on two different nodes had
   failed. *)
C8_Witness ==
    /\ pc = "returned"
    /\ result.kind = "Err"
    /\ Len(result.errors) >= 2
    /\ \E a, b \in Range(result.errors) : ~SameArguments(a, b)

(* C9: when the command text fully matches no recorded descriptor, no exec
   is invoked, and a dispatch that invoked no exec returns Err of the empty
   list. *)
C9_NoTerminalReachedFailsEmpty ==
    pc = "returned" =>
        /\ (\A i \in 1..Len(commands) :
                ~FullyMatches(commands[i].arguments, command)) => invoked = <<>>
        /\ invoked = <<>> => result = [kind |-> "Err", errors |-> <<>>]

(* C9, its case: "home" alone dispatched against "home [name]" and
   "home list|home": the cursor is exhausted at the node Literal{home},
   which has no exec. *)
C9_Witness ==
    /\ Len(commands) = 2
    /\ commands[1].arguments = <<LitHome, ParOpt>>
    /\ commands[2].arguments = <<LitHome, LitAlt>>
    /\ command = <<"home">>
    /\ pc = "returned"
    /\ visited = <<[node |-> children[1], input |-> <<"home">>, rest |-> <<>>,
                    satisfies |-> TRUE]>>
    /\ result = [kind |-> "Err", errors |-> <<>>]

(* C10: a register call with a descriptor of at least one Argument returns
   Ok, never OverlappingCommands, and records the descriptor; when a recorded
   descriptor has the same Argument sequence the call creates no node and
   appends its handler to the execs of that descriptor's terminal node. *)
C10_RegisterAcceptsDuplicates ==
    [][(pc' = "idle" /\ op'.name = "register" /\ op'.arguments # <<>>) =>
            LET exec == Len(commands) + 1
            IN  /\ op'.result = "Ok"
                /\ commands' = Append(commands,
                                      [arguments |-> op'.arguments, exec |-> exec])
                /\ \A i \in 1..Len(commands) :
                    commands[i].arguments = op'.arguments =>
                        /\ Len(nodes') = Len(nodes)
                        /\ children' = children
                        /\ \E k \in 1..Len(nodes) :
                            /\ i \in Range(nodes[k].execs)
                            /\ nodes' = [nodes EXCEPT
                                            ![k].execs = Append(@, exec)]]_vars

(* C10, its case: the second of two descriptors with the same Arguments was
   registered: one node, two execs. *)
C10_Witness ==
    /\ op.name = "register"
    /\ op.result = "Ok"
    /\ Len(commands) = 2
    /\ commands[1].arguments = commands[2].arguments
    /\ \E k \in 1..Len(nodes) : nodes[k].execs = <<1, 2>>

(* A register or with call has just been made with this result. *)
Registered(res) ==
    /\ pc = "idle"
    /\ op.name \in {"register", "with"}
    /\ op.result = res

(* C11: overlapping commands are detected at registration: no node ever
   carries the execs of two commands, a call that returned Ok did not
   register an Argument sequence that was already recorded (it would have
   been reported as OverlappingCommands, and `with` would have panicked). *)
C11_OverlappingDetected ==
    /\ \A k \in 1..Len(nodes) : Len(nodes[k].execs) <= 1
    /\ Registered("Ok") =>
        \A i \in 1..(Len(commands) - 1) : ~SameArguments(i, Len(commands))
    /\ (op.name = "with" /\ ~op.panicked) =>
        \A i \in 1..(Len(commands) - 1) : ~SameArguments(i, Len(commands))

(* C12: commands() yields the descriptors whose registration returned Ok,
   once each, in registration order: it starts empty, a register or with
   call that returns Ok adds its descriptor at the end, a call that returns
   an error adds nothing, and no other step changes what it yields. *)
C12_CommandsAreTheAccepted ==
    [][IF pc' = "idle"
       THEN IF op'.result = "Ok"
            THEN CommandsIter' =
                    Append(CommandsIter, [arguments |-> op'.arguments,
                                          exec |-> Len(CommandsIter) + 1])
            ELSE CommandsIter' = CommandsIter
       ELSE CommandsIter' = CommandsIter]_vars

(* C12, its case: two descriptors were accepted and then an empty one was
   refused; commands() yields the two, in order. *)
C12_Witness ==
    /\ Registered("ExecutableRoot")
    /\ Len(CommandsIter) = 2
    /\ CommandsIter[1].exec = 1
    /\ CommandsIter[2].exec = 2
    /\ CommandsIter[1].arguments # CommandsIter[2].arguments

(* The nodes below node k. *)
RECURSIVE Below(_)
Below(k) == UNION {{c} \cup Below(c) : c \in Range(nodes[k].children)}

StackNodes == {stack[n].node : n \in 1..Len(stack)}

VisitedNodes == {visited[n].node : n \in 1..Len(visited)}

(* C13: when a node's Argument is satisfied and the cursor is exhausted,
   its children are neither pushed nor explored, with or without execs on
   the node and whatever they returned: no node below it is on the stack or
   was visited, and no handler below it was invoked. *)
C13_ExhaustedNodeNotExpanded ==
    \A v \in 1..Len(visited) :
        (visited[v].satisfies /\ IsEmpty(visited[v].rest)) =>
            \A c \in Below(visited[v].node) :
                /\ c \notin StackNodes
                /\ c \notin VisitedNodes
                /\ \A e \in Range(nodes[c].execs) : ~Invoked(e)

(* C13, its case: the cursor was exhausted at a node whose exec failed and
   whose child is a Parser that accepts the exhausted input; dispatch
   returned and the child's handler was not invoked. *)
C13_Witness ==
    /\ pc = "returned"
    /\ \E v \in 1..Len(visited) :
        LET node == nodes[visited[v].node]
        IN  /\ visited[v].satisfies
            /\ IsEmpty(visited[v].rest)
            /\ node.execs # <<>>
            /\ \A e \in Range(node.execs) : Invoked(e) /\ ~Succeeded(e)
            /\ \E c \in Range(node.children) :
                /\ nodes[c].argument = ParOpt
                /\ Satisfy(nodes[c].argument, visited[v].rest).satisfies
                /\ nodes[c].execs # <<>>
                /\ \A e \in Range(nodes[c].execs) : ~Invoked(e)

(* The places where key k is stored: <<0, n>> is the n-th root child,
   <<m, n>> the n-th child of node m. *)
StoredAt(k) ==
    {<<0, n>> : n \in {n \in 1..Len(children) : children[n] = k}}
    \cup UNION {{<<m, n>> : n \in {n \in 1..Len(nodes[m].children) :
                                        nodes[m].children[n] = k}} :
                    m \in 1..Len(nodes)}

StoredKeys ==
    Range(children) \cup UNION {Range(nodes[m].children) : m \in 1..Len(nodes)}

(* The nodes reached from node k by following between 1 and n children
   links. *)
RECURSIVE ReachedWithin(_, _)
ReachedWithin(k, n) ==
    IF n = 0
    THEN {}
    ELSE LET kids == Range(nodes[k].children) \cap 1..Len(nodes)
         IN  kids \cup UNION {ReachedWithin(c, n - 1) : c \in kids}

(* C14: after any sequence of register calls the graph is a forest under
   the root: every key is stored exactly once in the children lists (the
   root's included), every stored key addresses a node, and no node is
   reached from itself by following children links. *)
C14_GraphIsForest ==
    pc = "idle" =>
        /\ \A k \in 1..Len(nodes) : Cardinality(StoredAt(k)) = 1
        /\ StoredKeys \subseteq 1..Len(nodes)
        /\ \A k \in 1..Len(nodes) : k \notin ReachedWithin(k, Len(nodes))

(* C14, its case: a graph with two root children, a node with two children
   and a node with one. *)
C14_Witness ==
    /\ pc = "idle"
    /\ Len(children) = 2
    /\ \E k \in 1..Len(nodes) : Len(nodes[k].children) = 2
    /\ \E k \in 1..Len(nodes) : Len(nodes[k].children) = 1

(* Structural equality of two Argument sequences. *)
ArgumentsEq(a, b) ==
    /\ Len(a) = Len(b)
    /\ \A n \in 1..Len(a) : ArgumentEq(a[n], b[n])

(* The recorded descriptors whose Argument sequence is the one along p. *)
DescriptorsOf(p) ==
    {i \in 1..Len(commands) : ArgumentsEq(commands[i].arguments, ArgumentsAlong(p))}

(* The number of execs held by the nodes 1..k. *)
RECURSIVE ExecsUpTo(_)
ExecsUpTo(k) == IF k = 0 THEN 0 ELSE Len(nodes[k].execs) + ExecsUpTo(k - 1)

(* C15: after any sequence of register calls every node holds as many execs
   as there are recorded descriptors whose Argument sequence equals its
   root-to-node Argument path; a node holds more than one exec only when two
   descriptors have the same sequence; and there are as many execs as
   recorded descriptors. *)
C15_ExecsCountDescriptors ==
    pc = "idle" =>
        /\ \A p \in NodePaths :
            Len(nodes[Last(p)].execs) = Cardinality(DescriptorsOf(p))
        /\ \A k \in 1..Len(nodes) :
            Len(nodes[k].execs) > 1 =>
                \E i, j \in Range(nodes[k].execs) : i # j /\ SameArguments(i, j)
        /\ ExecsUpTo(Len(nodes)) = Len(commands)

(* C15, its case: three descriptors recorded, two of them with the same
   sequence on one node, the third on a node of its own, and a node with no
   exec. *)
C15_Witness ==
    /\ pc = "idle"
    /\ Len(commands) = 3
    /\ \E k \in 1..Len(nodes) : Len(nodes[k].execs) = 2
    /\ \E k \in 1..Len(nodes) : Len(nodes[k].execs) = 1
    /\ \E k \in 1..Len(nodes) : Len(nodes[k].execs) = 0

(* Node k holds an exec or has a node below it that does; and holds one when
   it has no children. *)
OnRegisteredPath(k) ==
    /\ \E c \in {k} \cup Below(k) : nodes[c].execs # <<>>
    /\ nodes[k].children = <<>> => nodes[k].execs # <<>>

(* C16: after every register call, failed ones included, every node has
   itself or a descendant with a non-empty exec list, every childless node
   holds an exec, and a call that returns an error has created no node. *)
C16_EveryNodeOnRegisteredPath ==
    [][pc' = "idle" =>
            /\ (\A k \in 1..Len(nodes) : OnRegisteredPath(k))'
            /\ op'.result # "Ok" => nodes' = nodes]_vars

(* C16, its case: a register call has failed on a graph that holds a node
   with no exec of its own. *)
C16_Witness ==
    /\ Registered("ExecutableRoot")
    /\ Len(nodes) >= 3
    /\ \E k \in 1..Len(nodes) : nodes[k].execs = <<>>

IsPrefix(a, b) == Len(a) <= Len(b) /\ \A n \in 1..Len(a) : a[n] = b[n]

(* The length of the longest prefix of arguments that a chain of existing
   nodes, starting at a root child, spells. *)
MatchedPrefixLen(arguments) ==
    LET spelt == {p \in NodePaths :
                    /\ Len(p) <= Len(arguments)
                    /\ \A n \in 1..Len(p) :
                            ArgumentEq(arguments[n], nodes[p[n]].argument)}
        lens == {0} \cup {Len(p) : p \in spelt}
    IN  CHOOSE n \in lens : \A m \in lens : m <= n

(* C17: a register call only appends.  Every node that was there keeps its
   key and its Argument, every children list (the root's too) and exec list
   that was there is a prefix of what it is after the call, no node is
   removed, and a call that returns Ok adds as many nodes as the descriptor
   has Arguments beyond the matched prefix, and one exec. *)
C17_RegisterOnlyAppends ==
    [][pc' = "idle" =>
            /\ Len(nodes) <= Len(nodes')
            /\ \A k \in 1..Len(nodes) :
                /\ nodes'[k].argument = nodes[k].argument
                /\ IsPrefix(nodes[k].children, nodes'[k].children)
                /\ IsPrefix(nodes[k].execs, nodes'[k].execs)
            /\ IsPrefix(children, children')
            /\ op'.result = "Ok" =>
                /\ Len(nodes') - Len(nodes) =
                        Len(op'.arguments) - MatchedPrefixLen(op'.arguments)
                /\ ExecsUpTo(Len(nodes))' = ExecsUpTo(Len(nodes)) + 1]_vars

(* C17, its case: the third descriptor shares its first Argument with the
   first and has added one node below a node that had a child already. *)
C17_Witness ==
    /\ Registered("Ok")
    /\ Len(commands) = 3
    /\ Len(nodes) = 4
    /\ commands[1].arguments = <<LitAlt, LitHome>>
    /\ commands[2].arguments = <<ParOpt>>
    /\ commands[3].arguments = <<LitAlt, ParOpt>>

IsRootChild(c) == c \in Range(children)

(* The cursor input is where node c has to start: the beginning of the
   command text for a root child, and otherwise what was left right after
   the Argument of its parent, which was evaluated and satisfied. *)
StartsAt(c, input) ==
    IF IsRootChild(c)
    THEN input = InputNew(command)
    ELSE \E u \in 1..Len(visited) :
            /\ c \in Range(nodes[visited[u].node].children)
            /\ visited[u].satisfies
            /\ input = visited[u].rest

(* C18: during dispatch every pending entry, and every entry that was
   evaluated, starts at the beginning of the command text when its node is a
   root child and right after its parent's Argument otherwise, whatever
   the branches evaluated in between have consumed. *)
C18_EntriesCarryOwnCursor ==
    /\ \A n \in 1..Len(stack) : StartsAt(stack[n].node, stack[n].input)
    /\ \A v \in 1..Len(visited) : StartsAt(visited[v].node, visited[v].input)

(* C18, its case: two children of one node were evaluated one after the
   other; the first moved its cursor, the second started where the first
   had started. *)
C18_Witness ==
    \E u, v \in 1..Len(visited) :
        /\ u < v
        /\ ~IsRootChild(visited[u].node)
        /\ \E m \in 1..Len(nodes) :
                {visited[u].node, visited[v].node} \subseteq Range(nodes[m].children)
        /\ visited[u].rest # visited[u].input
        /\ visited[v].input = visited[u].input

(* b was created after its sibling a: it comes later in the children list
   they are both in. *)
LaterSibling(a, b) ==
    \E L \in {children} \cup {nodes[m].children : m \in 1..Len(nodes)} :
        \E i, j \in 1..Len(L) : i < j /\ L[i] = a /\ L[j] = b

VisitedBefore(x, y) ==
    \E u, v \in 1..Len(visited) :
        u < v /\ visited[u].node = x /\ visited[v].node = y

InvokedBefore(x, y) ==
    \E m, n \in 1..Len(invoked) :
        m < n /\ invoked[m].exec = x /\ invoked[n].exec = y

(* The node that holds the handler of the i-th recorded descriptor. *)
TerminalOf(i) == CHOOSE k \in 1..Len(nodes) : i \in Range(nodes[k].execs)

(* The chain of keys from a root child down to node k. *)
RECURSIVE PathTo(_)
PathTo(k) ==
    IF IsRootChild(k)
    THEN <<k>>
    ELSE Append(PathTo(CHOOSE m \in 1..Len(nodes) :
                            k \in Range(nodes[m].children)), k)

(* The paths of descriptors i and j part at two siblings, and the one on
   j's path was created later. *)
DivergesLater(i, j) ==
    LET p == PathTo(TerminalOf(i))
        q == PathTo(TerminalOf(j))
    IN  \E d \in 1..Len(p) :
            /\ d <= Len(q)
            /\ \A n \in 1..(d - 1) : p[n] = q[n]
            /\ LaterSibling(p[d], q[d])

(* C19: dispatch explores siblings last created first: when a node is
   evaluated, every sibling created after it has been evaluated and nothing
   below such a sibling is pending or evaluated later; the execs of one node
   are invoked in the order of its exec list; and of two descriptors that
   both fully match the text, the one whose path parts at the later created
   sibling has its handler invoked first. *)
C19_LaterSiblingFirst ==
    /\ \A v \in 1..Len(visited) : \A b \in 1..Len(nodes) :
        LaterSibling(visited[v].node, b) =>
            /\ VisitedBefore(b, visited[v].node)
            /\ \A c \in Below(b) :
                /\ c \notin StackNodes
                /\ c \in VisitedNodes => VisitedBefore(c, visited[v].node)
    /\ \A m, n \in 1..Len(invoked) :
        (m < n /\ TerminalOf(invoked[m].exec) = TerminalOf(invoked[n].exec)) =>
            LET execs == nodes[TerminalOf(invoked[m].exec)].execs
            IN  \E x, y \in 1..Len(execs) :
                    x < y /\ execs[x] = invoked[m].exec /\ execs[y] = invoked[n].exec
    /\ \A i, j \in 1..Len(commands) :
        (/\ Invoked(i)
         /\ FullyMatches(commands[j].arguments, command)
         /\ DivergesLater(i, j)) => InvokedBefore(j, i)

(* C19, its case: three handlers were invoked, the two on the later created
   root child first and in the order they were attached, and the one on the
   earlier root child last. *)
C19_Witness ==
    /\ Len(invoked) = 3
    /\ invoked[1].exec = 2
    /\ invoked[2].exec = 3
    /\ invoked[3].exec = 1
    /\ TerminalOf(2) = TerminalOf(3)
    /\ LaterSibling(TerminalOf(1), TerminalOf(2))

(* C20: dispatch terminates, for every graph register has built and every
   command text: once the loop is entered dispatch returns; no node is
   popped, and so no Argument predicate evaluated, more than once in a call,
   no exec is invoked more than once, and there are no more iterations than
   nodes. *)
C20_DispatchTerminates ==
    /\ [](/\ \A u, v \in 1..Len(visited) :
                visited[u].node = visited[v].node => u = v
          /\ \A m, n \in 1..Len(invoked) :
                invoked[m].exec = invoked[n].exec => m = n
          /\ Len(visited) <= Len(nodes))
    /\ (pc = "loop") ~> (pc = "returned")

(* C20, its case: dispatch has returned after one iteration for each node of
   a graph of three nodes or more. *)
C20_Witness ==
    /\ pc = "returned"
    /\ Len(nodes) >= 3
    /\ Len(visited) = Len(nodes)

----------------------------------------------------------------------------
(* The #[command] macro: parse_usage and generate_command_spec. *)

MaxUsageLen == 4        \* characters of one usage string
MaxParameters == 2      \* function parameters found for the usage

(* A character that takes two bytes in UTF-8, such as e with an acute accent;
   the others take one. *)
EAcute == "e'"

UsageChars == {"<", ">", "[", "]", "|", Space, "a", EAcute}

Usages == UNION {[1..n -> UsageChars] : n \in 0..MaxUsageLen}

ParameterTypes == {"Opt"}

ParameterLists == UNION {[1..n -> ParameterTypes] : n \in 0..MaxParameters}

Utf8Len(c) == IF c = EAcute THEN 2 ELSE 1

(* str::len: the length in bytes. *)
RECURSIVE StrLen(_)
StrLen(s) == IF s = <<>> THEN 0 ELSE Utf8Len(Head(s)) + StrLen(Tail(s))

Min(a, b) == IF a <= b THEN a ELSE b

SaturatingSub(a, b) == IF a >= b THEN a - b ELSE 0

(* str::split_at(mid): panics when the byte offset mid is not on a character
   boundary. *)
SplitAt(s, mid) ==
    IF \E n \in 0..Len(s) : StrLen(SubSeq(s, 1, n)) = mid
    THEN LET n == CHOOSE n \in 0..Len(s) : StrLen(SubSeq(s, 1, n)) = mid
         IN  [panics |-> FALSE, head |-> SubSeq(s, 1, n),
              tail |-> SubSeq(s, n + 1, Len(s))]
    ELSE [panics |-> TRUE]

(* str::split(sep): the pieces between the occurrences of the character sep;
   one piece more than there are occurrences. *)
RECURSIVE StrSplit(_, _)
StrSplit(s, sep) ==
    IF \E i \in 1..Len(s) : s[i] = sep
    THEN LET i == CHOOSE i \in 1..Len(s) :
                    s[i] = sep /\ \A j \in 1..(i - 1) : s[j] # sep
         IN  <<SubSeq(s, 1, i - 1)>> \o StrSplit(SubSeq(s, i + 1, Len(s)), sep)
    ELSE <<s>>

(* The body of the for loop of parse_usage, for one piece. *)
ParsePiece(splitted) ==
    LET a == SplitAt(splitted, Min(1, StrLen(splitted)))
    IN  IF a.panics
        THEN [kind |-> "panic"]
        ELSE LET b == SplitAt(a.tail, SaturatingSub(StrLen(a.tail), 1))
             IN  IF b.panics
                 THEN [kind |-> "panic"]
                 ELSE IF a.head = <<"<">> /\ b.tail = <<">">>
                      THEN [kind |-> "Parameter", name |-> b.head, priority |-> 0]
                      ELSE IF a.head = <<"[">> /\ b.tail = <<"]">>
                           THEN [kind |-> "OptionalParameter", name |-> b.head,
                                 priority |-> 0]
                           ELSE [kind |-> "Literal",
                                 values |-> StrSplit(splitted, "|")]

(* parse_usage(usage): one Argument per piece, unless a split panics. *)
parse_usage(usage) ==
    LET pieces == StrSplit(usage, Space)
        parsed == [n \in 1..Len(pieces) |-> ParsePiece(pieces[n])]
    IN  IF \E n \in 1..Len(parsed) : parsed[n].kind = "panic"
        THEN [panics |-> TRUE]
        ELSE [panics |-> FALSE, arguments |-> parsed]

(* The for loop of generate_command_spec: the Arguments the generated build()
   pushes; i counts the parameters used so far, and parameters[i] panics
   beyond the parameters found. *)
RECURSIVE GenerateArguments(_, _, _, _, _)
GenerateArguments(arguments, n, parameters, i, built) ==
    IF n > Len(arguments)
    THEN [panics |-> FALSE, arguments |-> built]
    ELSE IF arguments[n].kind = "Literal"
         THEN GenerateArguments(arguments, n + 1, parameters, i,
                    Append(built, [kind |-> "Literal",
                                   values |-> arguments[n].values]))
         ELSE IF i + 1 > Len(parameters)
              THEN [panics |-> TRUE]
              ELSE GenerateArguments(arguments, n + 1, parameters, i + 1,
                        Append(built, [kind |-> "Parser",
                                       name |-> arguments[n].name,
                                       argument_type |-> parameters[i + 1],
                                       priority |-> arguments[n].priority]))

generate_command_spec(usage, parameters) ==
    GenerateArguments(usage.arguments, 1, parameters, 0, <<>>)

(* #[command(usage = ...)] on a function: the expansion, at compile time,
   before anything is registered. *)
MacroCommand(usage, parameters) ==
    /\ pc = "idle"
    /\ op.name = "new"
    /\ LET parsed == parse_usage(usage)
       IN  op' = [name |-> "command", usage |-> usage, parsed |-> parsed,
                  built |-> IF parsed.panics
                            THEN [panics |-> TRUE]
                            ELSE generate_command_spec(parsed, parameters)]
    /\ UNCHANGED <<graph, locals>>

(* register(command) with the command the macro has defined: register calls
   its build(). *)
RegisterDefined ==
    /\ op.name = "command"
    /\ ~op.built.panics
    /\ Register(op.built.arguments)

UsageNext ==
    \/ \E usage \in Usages : \E parameters \in ParameterLists :
            MacroCommand(usage, parameters)
    \/ RegisterDefined

UsageSpec == Init /\ [][UsageNext]_vars

(* What the usage grammar makes of one piece, character by character. *)
IsArgumentOf(argument, piece) ==
    IF Len(piece) >= 2 /\ piece[1] = "<" /\ piece[Len(piece)] = ">"
    THEN /\ argument.kind = "Parameter"
         /\ argument.name = SubSeq(piece, 2, Len(piece) - 1)
    ELSE IF Len(piece) >= 2 /\ piece[1] = "[" /\ piece[Len(piece)] = "]"
         THEN /\ argument.kind = "OptionalParameter"
              /\ argument.name = SubSeq(piece, 2, Len(piece) - 1)
         ELSE /\ argument.kind = "Literal"
              /\ argument.values = StrSplit(piece, "|")

UsageParsedPieceByPiece ==
    LET pieces == StrSplit(op.usage, Space)
    IN  /\ ~op.parsed.panics
        /\ op.parsed.arguments # <<>>
        /\ Len(op.parsed.arguments) = Len(pieces)
        /\ \A n \in 1..Len(pieces) :
                IsArgumentOf(op.parsed.arguments[n], pieces[n])

(* C21: parse_usage maps a usage string to one Argument per piece between
   single spaces, in order: <name> to a Parameter, [name] to an
   OptionalParameter, every other piece (the empty one too) to a Literal of
   the piece split on '|'; the result is never empty, and a command defined
   through the macro is never rejected with ExecutableRoot. *)
C21_UsagePiecesParsed ==
    /\ op.name = "command" => UsageParsedPieceByPiece
    /\ op.name = "register" => op.result # "ExecutableRoot"

(* The same for usage strings of one-byte characters. *)
Aux_OneByteUsagePiecesParsed ==
    /\ (op.name = "command" /\ EAcute \notin Range(op.usage)) =>
            UsageParsedPieceByPiece
    /\ op.name = "register" => op.result # "ExecutableRoot"

(* The case: a usage string of a parameter and a literal has been parsed
   and the command built. *)
Aux_UsageParsedWitness ==
    /\ op.name = "command"
    /\ ~op.parsed.panics
    /\ ~op.built.panics
    /\ Len(op.parsed.arguments) = 2
    /\ op.parsed.arguments[1].kind = "Parameter"
    /\ op.parsed.arguments[2].kind = "Literal"
====
